---- MODULE Spec2Model ----
(***************************************************************************)
(* Model of lta_rankings_gui.pyw: the two table extractors, the rankings   *)
(* page loop, the tournament single-fetch job, the worker threads started  *)
(* by the two buttons and the completion callback.                         *)
(*                                                                         *)
(* Text is a sequence of one-character strings, so that strip, lower,      *)
(* startswith and substring search are computed and not assumed.  A cell   *)
(* of a DataFrame is either missing (NaN) or a text.  The result of        *)
(* pd.read_html is a sequence of DataFrames; the empty sequence stands for *)
(* read_html raising ValueError ("No tables found").                       *)
(*                                                                         *)
(* A worker thread advances in the steps at which it can block or fail:    *)
(* creating the browser, one iteration of the page loop (fetch, login       *)
(* dialog, wait, page source, extraction), the finally block, saving, the  *)
(* completion callback.  The text of the log widget is display only; of    *)
(* the log the model keeps whether the worker logged its UNEXPECTED ERROR  *)
(* line (error_logged).  The fields fetched and got of a job are history:  *)
(* the pages it asked for and the rows extracted from each.                *)
(***************************************************************************)
EXTENDS Integers, Sequences, FiniteSets, TLC

VARIABLES
    started,      \* number of worker threads started so far
    status_var,   \* the GUI status line (tk.StringVar)
    jobs,         \* per worker thread: its position and its local variables
    sessions,     \* every browser session create_driver ever returned
    html,         \* extraction harness: the parsed page handed to the extractors
    out           \* extraction harness: what the extractors returned

vars == <<started, status_var, jobs, sessions, html, out>>

(***************************************************************************)
(* Bounds of the model.                                                    *)
(***************************************************************************)
MaxJobs == 2      \* worker threads started in one run of the GUI
MaxRows == 2      \* body rows of a generated table in the extraction harness
MaxTables == 2    \* tables of a generated multi-table page

(***************************************************************************)
(* Text                                                                    *)
(***************************************************************************)
Upper == <<"A","B","C","D","E","F","G","H","I","J","K","L","M",
           "N","O","P","Q","R","S","T","U","V","W","X","Y","Z">>
Lower == <<"a","b","c","d","e","f","g","h","i","j","k","l","m",
           "n","o","p","q","r","s","t","u","v","w","x","y","z">>

\* str.lower() on one character
LowerChar(c) ==
    IF \E i \in 1..26 : Upper[i] = c
    THEN Lower[CHOOSE i \in 1..26 : Upper[i] = c]
    ELSE c

\* str.lower()
lower(s) == [i \in 1..Len(s) |-> LowerChar(s[i])]

IsSpace(c) == c \in {" ", "\t", "\n"}

RECURSIVE lstrip(_)
lstrip(s) == IF s # <<>> /\ IsSpace(Head(s)) THEN lstrip(Tail(s)) ELSE s

RECURSIVE rstrip(_)
rstrip(s) ==
    IF s # <<>> /\ IsSpace(s[Len(s)]) THEN rstrip(SubSeq(s, 1, Len(s) - 1)) ELSE s

\* str.strip()
strip(s) == rstrip(lstrip(s))

\* str.startswith(p)
startswith(s, p) == Len(s) >= Len(p) /\ SubSeq(s, 1, Len(p)) = p

\* p in s
contains(s, p) ==
    \E i \in 1..(Len(s) - Len(p) + 1) : SubSeq(s, i, i + Len(p) - 1) = p

Digit == <<"0","1","2","3","4","5","6","7","8","9">>

\* str(n) for n >= 0
RECURSIVE IntToStr(_)
IntToStr(n) ==
    IF n < 10 THEN <<Digit[n + 1]>>
    ELSE IntToStr(n \div 10) \o <<Digit[(n % 10) + 1]>>

(***************************************************************************)
(* Cells and DataFrames                                                    *)
(***************************************************************************)
NaN == [isna |-> TRUE, v |-> <<>>]
Str(s) == [isna |-> FALSE, v |-> s]

\* Series.astype(str) on one cell: a missing value becomes the text "nan"
astype_str(c) == IF c.isna THEN <<"n","a","n">> ELSE c.v

None == <<>>
Some(df) == <<df>>

DataFrame(cols, rows) == [columns |-> cols, rows |-> rows]

\* df.empty: no rows or no columns
empty(df) == Len(df.rows) = 0 \/ Len(df.columns) = 0

InCols(name, cols) == \E k \in 1..Len(cols) : cols[k] = name

\* position of the (first) column labelled name
ColIndex(cols, name) == CHOOSE k \in 1..Len(cols) :
    cols[k] = name /\ \A m \in 1..(k - 1) : cols[m] # name

\* row[name]
Cell(cols, row, name) == row[ColIndex(cols, name)]

L_Rank == <<"R","a","n","k">>
L_Player == <<"P","l","a","y","e","r">>
L_Name == <<"N","a","m","e">>
L_Status == <<"S","t","a","t","u","s">>
L_Unnamed == <<"U","n","n","a","m","e","d">>
L_Rank1 == <<"R","a","n","k",".","1">>
L_SinglesLower == <<"S","i","n","g","l","e","s"," ","p","o","i","n","t","s">>
L_SinglesUpper == <<"S","i","n","g","l","e","s"," ","P","o","i","n","t","s">>
L_DoublesLower == <<"D","o","u","b","l","e","s"," ","p","o","i","n","t","s">>
L_DoublesUpper == <<"D","o","u","b","l","e","s"," ","P","o","i","n","t","s">>
T_page == <<"p","a","g","e">>
T_results == <<"r","e","s","u","l","t","s">>
T_date == <<"d","a","t","e">>
T_withdrawn == <<"w","i","t","h","d","r","a","w","n">>
T_nan == <<"n","a","n">>
T_none == <<"n","o","n","e">>
T_name == <<"n","a","m","e">>

\* cols = [str(c).strip() for c in df.columns]
StripColumns(df) == [k \in 1..Len(df.columns) |-> strip(df.columns[k])]

\* the indices of the columns kept by ~columns.str.startswith("Unnamed")
RECURSIVE NamedIdx(_, _)
NamedIdx(cols, k) ==
    IF k > Len(cols) THEN <<>>
    ELSE IF startswith(cols[k], L_Unnamed) THEN NamedIdx(cols, k + 1)
    ELSE <<k>> \o NamedIdx(cols, k + 1)

\* df.rename(columns=rename_map)
rename_map(label) ==
    IF label = L_SinglesLower THEN L_SinglesUpper
    ELSE IF label = L_DoublesLower THEN L_DoublesUpper
    ELSE label

\* rank_str.str.contains("page|results", case=False, na=False)
is_bad(cols, row) ==
    LET rank_str == lower(astype_str(Cell(cols, row, L_Rank)))
    IN  contains(rank_str, T_page) \/ contains(rank_str, T_results)

\* player_str.ne("") & player_str.ne("Player")
player_ok(cols, row) ==
    LET player_str == strip(astype_str(Cell(cols, row, L_Player)))
    IN  player_str # <<>> /\ player_str # L_Player

\* lines 37-52: the sanitizer applied to the selected ranking table
SanitizeRanking(cols, rows) ==
    LET notBad(r) == ~is_bad(cols, r)
        okPlayer(r) == player_ok(cols, r)
        kept == SelectSeq(SelectSeq(rows, notBad), okPlayer)
        idx == NamedIdx(cols, 1)
    IN  DataFrame([k \in 1..Len(idx) |-> rename_map(cols[idx[k]])],
                  [n \in 1..Len(kept) |-> [k \in 1..Len(idx) |-> kept[n][idx[k]]]])

\* the schema test of line 34
IsRankingTable(cols) == InCols(L_Rank, cols) /\ InCols(L_Player, cols)

RECURSIVE RankingScan(_, _)
RankingScan(tables, i) ==
    IF i > Len(tables) THEN None
    ELSE LET cols == StripColumns(tables[i])
         IN  IF ~IsRankingTable(cols) THEN RankingScan(tables, i + 1)
             ELSE Some(SanitizeRanking(cols, tables[i].rows))

\* mutant of extract_ranking_table: the last matching table wins
RECURSIVE RankingScanBack(_, _)
RankingScanBack(tables, i) ==
    IF i < 1 THEN None
    ELSE LET cols == StripColumns(tables[i])
         IN  IF ~IsRankingTable(cols) THEN RankingScanBack(tables, i - 1)
             ELSE Some(SanitizeRanking(cols, tables[i].rows))

extract_ranking_table_last(tables) == RankingScanBack(tables, Len(tables))

extract_ranking_table(tables) == RankingScan(tables, 1)

\* the schema test of lines 75-78
IsEntriesTable(cols) ==
    /\ InCols(L_Name, cols)
    /\ \E k \in 1..Len(cols) : contains(lower(cols[k]), T_date)

\* mutant of not_withdrawn: the .str.lower() missing
not_withdrawn_case_sensitive(cols, row) ==
    InCols(L_Status, cols) =>
        ~contains(astype_str(Cell(cols, row, L_Status)), T_withdrawn)

\* ~status_str.str.contains("withdrawn", na=False), when a Status column exists
not_withdrawn(cols, row) ==
    InCols(L_Status, cols) =>
        ~contains(lower(astype_str(Cell(cols, row, L_Status))), T_withdrawn)

invalid_names == {<<>>, T_name, T_nan, T_none}

\* lines 87-95 on one row: dropna, then strip, then the placeholder test
name_valid(cols, row) ==
    /\ ~Cell(cols, row, L_Name).isna
    /\ lower(strip(astype_str(Cell(cols, row, L_Name)))) \notin invalid_names

\* lines 80-100: the sanitizer applied to a matching entries table
SanitizeEntries(cols, rows) ==
    LET present(r) == not_withdrawn(cols, r)
        valid(r) == name_valid(cols, r)
        kept == SelectSeq(SelectSeq(rows, present), valid)
    IN  DataFrame(<<L_Name>>,
                  [n \in 1..Len(kept) |->
                      <<Str(strip(astype_str(Cell(cols, kept[n], L_Name))))>>])

RECURSIVE EntriesScan(_, _)
EntriesScan(tables, i) ==
    IF i > Len(tables) THEN None
    ELSE LET cols == StripColumns(tables[i])
         IN  IF ~IsEntriesTable(cols) THEN EntriesScan(tables, i + 1)
             ELSE LET df == SanitizeEntries(cols, tables[i].rows)
                  IN  IF empty(df) THEN EntriesScan(tables, i + 1) ELSE Some(df)

extract_online_entries_table(tables) == EntriesScan(tables, 1)

(***************************************************************************)
(* Browser sessions                                                        *)
(*                                                                         *)
(* A thread calls create_driver at most once, so the session it gets is    *)
(* named after the thread.  sessions[d] records the thread that created    *)
(* session d, whether it is still open, how often driver.quit() was called *)
(* on it, and whether it was ever used by another thread or after quit.    *)
(* ChromiumDriver.quit() swallows the errors of the remote end, so quit    *)
(* itself does not raise.                                                  *)
(***************************************************************************)
NoDriver == 0
NoSession == [owner |-> 0, open |-> FALSE, quits |-> 0, misused |-> FALSE]

\* webdriver.Chrome(...) called by thread j: a session of its own
create_driver(j) == j

\* the browser process behind a new driver object
OpenSession(ss, d, j) ==
    [ss EXCEPT ![d] = [owner |-> j, open |-> TRUE, quits |-> 0, misused |-> @.misused]]

\* driver.get / WebDriverWait(driver, 20) / driver.page_source by thread j
UseDriver(ss, d, j) ==
    [ss EXCEPT ![d].misused = @ \/ ~ss[d].open \/ ss[d].owner # j]

\* driver.quit() by thread j
QuitDriver(ss, d, j) ==
    [ss EXCEPT ![d].open = FALSE,
               ![d].quits = @ + 1,
               ![d].misused = @ \/ ss[d].owner # j]

(***************************************************************************)
(* Worker threads                                                          *)
(***************************************************************************)
Slots == 1..MaxJobs

IdleJob ==
    [kind |-> "none", pc |-> "idle", max_players |-> 0, pages_needed |-> 0,
     page |-> 0, all_tables |-> <<>>, df_online |-> None, driver |-> NoDriver,
     page_html |-> <<>>, raised |-> FALSE, fetched |-> <<>>, got |-> <<>>,
     done_calls |-> <<>>, written |-> <<>>, error_logged |-> FALSE]

Running(j) == jobs[j].kind # "none" /\ jobs[j].pc \notin {"done", "crashed"}

\* results_per_page=25 in start_rankings.worker
results_per_page == 25

\* mutant of pages_needed: integer division in place of math.ceil
pages_needed_floor(max_players, per_page) == max_players \div per_page

\* math.ceil(max_players / results_per_page), exact for the integers used here
pages_needed(max_players, per_page) == (max_players + per_page - 1) \div per_page

\* scraping_done(success, filename): the new status line
scraping_done(success, filename) ==
    IF success THEN <<"Finished. Saved to", filename>>
    ELSE <<"Finished with errors. See log.">>

\* done_fn(success, filename) called by thread j: the callback runs and is recorded
Report(job, success, filename) ==
    [job EXCEPT !.done_calls = Append(@, [success |-> success, filename |-> filename])]

(***************************************************************************)
(* Button handlers                                                         *)
(***************************************************************************)
\* int(max_players_var.get().strip()) with the <= 0 test: lines 349-355
ValidMaxPlayers(entry) == entry.is_int /\ entry.n > 0

\* lines 348-394.  entry is the text of the max-players field as int() sees it
start_rankings(entry, url_ok, folder_ok) ==
    IF ~ValidMaxPlayers(entry) \/ ~url_ok \/ ~folder_ok
    THEN UNCHANGED vars                          \* messagebox.showerror; return
    ELSE /\ started < MaxJobs
         /\ started' = started + 1
         /\ status_var' = <<"Downloading rankings">>
         /\ jobs' = [jobs EXCEPT ![started + 1] =
                [IdleJob EXCEPT !.kind = "rankings", !.pc = "create",
                                !.max_players = entry.n]]
         /\ UNCHANGED <<sessions, html, out>>

\* lines 396-432
start_tournament(url_ok, folder_ok) ==
    IF ~url_ok \/ ~folder_ok
    THEN UNCHANGED vars                          \* messagebox.showerror; return
    ELSE /\ started < MaxJobs
         /\ started' = started + 1
         /\ status_var' = <<"Downloading tournament players">>
         /\ jobs' = [jobs EXCEPT ![started + 1] =
                [IdleJob EXCEPT !.kind = "tournament", !.pc = "create"]]
         /\ UNCHANGED <<sessions, html, out>>

(***************************************************************************)
(* scrape_rankings                                                         *)
(***************************************************************************)
\* lines 121-125: create_driver() is called before the try block
RankingsCreate(j, ok) ==
    /\ jobs[j].kind = "rankings" /\ jobs[j].pc = "create"
    /\ IF ok
       THEN /\ sessions' = OpenSession(sessions, create_driver(j), j)
            /\ jobs' = [jobs EXCEPT ![j].driver = create_driver(j),
                                    ![j].pages_needed =
                                        pages_needed(jobs[j].max_players, results_per_page),
                                    ![j].page = 1,
                                    \* range(1, pages_needed + 1) may be empty
                                    ![j].pc =
                                        IF pages_needed(jobs[j].max_players,
                                                        results_per_page) >= 1
                                        THEN "loop" ELSE "finally"]
       ELSE /\ jobs' = [jobs EXCEPT ![j].raised = TRUE, ![j].pc = "caught"]
            /\ UNCHANGED sessions
    /\ UNCHANGED <<started, status_var, html, out>>

\* len(df) summed over all_tables
total_rows(tables) ==
    LET RECURSIVE Sum(_)
        Sum(k) == IF k = 0 THEN 0 ELSE Len(tables[k].rows) + Sum(k - 1)
    IN  Sum(Len(tables))

\* lines 155-163 and the loop header: where the loop goes after a page
AfterPage(job, tables, reached_check) ==
    IF (reached_check /\ total_rows(tables) >= job.max_players)
       \/ job.page >= job.pages_needed
    THEN [job EXCEPT !.all_tables = tables, !.pc = "finally"]
    ELSE [job EXCEPT !.all_tables = tables, !.page = @ + 1]

\* lines 128-163: one iteration of the page loop.  o is what the renderer and
\* the parser do on this page
RankingsPage(j, o) ==
    LET job == [jobs[j] EXCEPT !.fetched = Append(@, jobs[j].page)]
        df_page == extract_ranking_table(o.tables)
        appended == IF df_page # None /\ ~empty(df_page[1])
                    THEN Append(job.all_tables, df_page[1])
                    ELSE job.all_tables
    IN
    /\ jobs[j].kind = "rankings" /\ jobs[j].pc = "loop"
    /\ sessions' = UseDriver(sessions, jobs[j].driver, j)
    /\ jobs' = [jobs EXCEPT ![j] =
         CASE o.k \in {"get_raises", "source_raises", "parse_raises"} ->
                [job EXCEPT !.raised = TRUE, !.pc = "finally"]
           [] o.k = "no_table" ->                 \* WebDriverWait timed out: continue
                AfterPage(job, job.all_tables, FALSE)
           [] o.k = "html" ->
                AfterPage([job EXCEPT !.got = Append(@,
                              [page |-> job.page,
                               columns |-> IF df_page = None THEN <<>>
                                           ELSE df_page[1].columns,
                               rows |-> IF df_page = None THEN <<>>
                                        ELSE df_page[1].rows])],
                          appended, TRUE)]
    /\ UNCHANGED <<started, status_var, html, out>>

\* mutant of RankingsFinally: driver.quit() after the loop without try/finally,
\* so that an exception leaves the loop without closing the browser
RankingsFinally_LeakOnError(j) ==
    /\ jobs[j].kind = "rankings" /\ jobs[j].pc = "finally"
    /\ sessions' = IF jobs[j].raised THEN sessions
                   ELSE QuitDriver(sessions, jobs[j].driver, j)
    /\ jobs' = [jobs EXCEPT ![j].pc = IF jobs[j].raised THEN "caught" ELSE "after"]
    /\ UNCHANGED <<started, status_var, html, out>>

\* lines 164-165: finally: driver.quit()
RankingsFinally(j) ==
    /\ jobs[j].kind = "rankings" /\ jobs[j].pc = "finally"
    /\ sessions' = QuitDriver(sessions, jobs[j].driver, j)
    /\ jobs' = [jobs EXCEPT ![j].pc = IF jobs[j].raised THEN "caught" ELSE "after"]
    /\ UNCHANGED <<started, status_var, html, out>>

\* pd.concat(all_tables, ignore_index=True): rows in list order
RECURSIVE concat_rows(_)
concat_rows(tables) ==
    IF tables = <<>> THEN <<>> ELSE Head(tables).rows \o concat_rows(Tail(tables))

\* mutant of iloc_head: the slice bound off by one, iloc[:max_players + 1]
iloc_head_off_by_one(rows, n) ==
    SubSeq(rows, 1, IF Len(rows) < n + 1 THEN Len(rows) ELSE n + 1)

\* combined.iloc[:max_players]
iloc_head(rows, n) == SubSeq(rows, 1, IF Len(rows) < n THEN Len(rows) ELSE n)

\* lines 175-176: drop the column "Rank.1" if present
drop_rank1(df) ==
    LET RECURSIVE Keep(_)
        Keep(k) == IF k > Len(df.columns) THEN <<>>
                   ELSE IF df.columns[k] = L_Rank1 THEN Keep(k + 1)
                   ELSE <<k>> \o Keep(k + 1)
        idx == Keep(1)
    IN  DataFrame([k \in 1..Len(idx) |-> df.columns[idx[k]]],
                  [n \in 1..Len(df.rows) |-> [k \in 1..Len(idx) |-> df.rows[n][idx[k]]]])

\* lines 172-176.  The frames of one job come from the same site and carry
\* the same columns, those of the first frame
combined(tables, max_players) ==
    drop_rank1(DataFrame(tables[1].columns,
                         iloc_head(concat_rows(tables), max_players)))

\* mutant of RankingsNoData: the "if not all_tables" test missing, so that the
\* empty result is saved and reported as a success
RankingsNoData_Saves(j) ==
    /\ jobs[j].kind = "rankings" /\ jobs[j].pc = "after"
    /\ jobs[j].all_tables = <<>>
    /\ jobs' = [jobs EXCEPT ![j] =
                  [Report(jobs[j], TRUE, "rankings.csv") EXCEPT
                      !.written = Append(@, DataFrame(<<>>, <<>>)), !.pc = "done"]]
    /\ status_var' = scraping_done(TRUE, "rankings.csv")
    /\ UNCHANGED <<started, sessions, html, out>>

\* lines 167-170: nothing scraped
RankingsNoData(j) ==
    /\ jobs[j].kind = "rankings" /\ jobs[j].pc = "after"
    /\ jobs[j].all_tables = <<>>
    /\ jobs' = [jobs EXCEPT ![j] = [Report(jobs[j], FALSE, "None") EXCEPT !.pc = "done"]]
    /\ status_var' = scraping_done(FALSE, "None")
    /\ UNCHANGED <<started, sessions, html, out>>

\* mutant of RankingsSave: done_fn(True, output_csv) called before to_csv
RankingsSave_ReportsFirst(j, ok) ==
    /\ jobs[j].kind = "rankings" /\ jobs[j].pc = "after"
    /\ jobs[j].all_tables # <<>>
    /\ jobs' = [jobs EXCEPT ![j] =
          IF ok THEN [Report(jobs[j], TRUE, "rankings.csv") EXCEPT
                         !.written = Append(@, combined(jobs[j].all_tables,
                                                        jobs[j].max_players)),
                         !.pc = "done"]
          ELSE [Report(jobs[j], TRUE, "rankings.csv") EXCEPT
                         !.raised = TRUE, !.pc = "caught"]]
    /\ status_var' = scraping_done(TRUE, "rankings.csv")
    /\ UNCHANGED <<started, sessions, html, out>>

\* lines 172-178: combined.to_csv(output_csv, ...), which may raise (OSError)
RankingsSave(j, ok) ==
    /\ jobs[j].kind = "rankings" /\ jobs[j].pc = "after"
    /\ jobs[j].all_tables # <<>>
    /\ jobs' = [jobs EXCEPT ![j] =
          IF ok THEN [jobs[j] EXCEPT
                         !.written = Append(@, combined(jobs[j].all_tables,
                                                        jobs[j].max_players)),
                         !.pc = "saved"]
          ELSE [jobs[j] EXCEPT !.raised = TRUE, !.pc = "caught"]]
    /\ UNCHANGED <<started, status_var, sessions, html, out>>

\* lines 179-180: done_fn(True, output_csv)
RankingsReport(j) ==
    /\ jobs[j].kind = "rankings" /\ jobs[j].pc = "saved"
    /\ jobs' = [jobs EXCEPT ![j] =
                  [Report(jobs[j], TRUE, "rankings.csv") EXCEPT !.pc = "done"]]
    /\ status_var' = scraping_done(TRUE, "rankings.csv")
    /\ UNCHANGED <<started, sessions, html, out>>

(***************************************************************************)
(* scrape_tournament_players                                               *)
(***************************************************************************)
\* lines 184-186: create_driver() is called before the try block
TournamentCreate(j, ok) ==
    /\ jobs[j].kind = "tournament" /\ jobs[j].pc = "create"
    /\ IF ok
       THEN /\ sessions' = OpenSession(sessions, create_driver(j), j)
            /\ jobs' = [jobs EXCEPT ![j].driver = create_driver(j),
                                    ![j].pc = "fetch"]
       ELSE /\ jobs' = [jobs EXCEPT ![j].raised = TRUE, ![j].pc = "caught"]
            /\ UNCHANGED sessions
    /\ UNCHANGED <<started, status_var, html, out>>

final_invalid_names == {<<>>, T_nan, T_none}

\* lines 219-225: dropna on Name, strip, drop the placeholders
final_clean(df) ==
    LET valid(r) ==
            /\ ~Cell(df.columns, r, L_Name).isna
            /\ lower(strip(astype_str(Cell(df.columns, r, L_Name))))
                   \notin final_invalid_names
        kept == SelectSeq(df.rows, valid)
    IN  DataFrame(df.columns,
                  [n \in 1..Len(kept) |->
                      [k \in 1..Len(df.columns) |->
                          IF df.columns[k] = L_Name
                          THEN Str(strip(astype_str(kept[n][k])))
                          ELSE kept[n][k]]])

\* lines 189-225: the single fetch.  o is what the renderer and the parser do
TournamentPage(j, o) ==
    LET job == [jobs[j] EXCEPT !.fetched = Append(@, 1)]
        df_online == extract_online_entries_table(o.tables)
    IN
    /\ jobs[j].kind = "tournament" /\ jobs[j].pc = "fetch"
    /\ sessions' = UseDriver(sessions, jobs[j].driver, j)
    /\ IF o.k \in {"get_raises", "source_raises", "parse_raises"}
       THEN /\ jobs' = [jobs EXCEPT ![j] = [job EXCEPT !.raised = TRUE, !.pc = "finally"]]
            /\ UNCHANGED status_var
       ELSE IF o.k = "no_table" \/ df_online = None \/ empty(df_online[1])
       THEN \* done_fn(False, None); return, through the finally block
            /\ jobs' = [jobs EXCEPT ![j] =
                          [Report(job, FALSE, "None") EXCEPT
                              !.page_html = IF o.k = "html" THEN o.tables ELSE <<>>,
                              !.pc = "finally"]]
            /\ status_var' = scraping_done(FALSE, "None")
       ELSE /\ jobs' = [jobs EXCEPT ![j] =
                          [job EXCEPT !.page_html = o.tables,
                                      !.df_online = Some(final_clean(df_online[1])),
                                      !.pc = "t_save"]]
            /\ UNCHANGED status_var
    /\ UNCHANGED <<started, html, out>>

\* line 227: df_online.to_csv(output_csv, ...), which may raise (OSError)
TournamentSave(j, ok) ==
    /\ jobs[j].kind = "tournament" /\ jobs[j].pc = "t_save"
    /\ jobs' = [jobs EXCEPT ![j] =
          IF ok THEN [jobs[j] EXCEPT !.written = Append(@, jobs[j].df_online[1]),
                                     !.pc = "t_saved"]
          ELSE [jobs[j] EXCEPT !.raised = TRUE, !.pc = "finally"]]
    /\ UNCHANGED <<started, status_var, sessions, html, out>>

\* lines 229-230: done_fn(True, output_csv), still inside the try block
TournamentReport(j) ==
    /\ jobs[j].kind = "tournament" /\ jobs[j].pc = "t_saved"
    /\ jobs' = [jobs EXCEPT ![j] =
                  [Report(jobs[j], TRUE, "tournament.csv") EXCEPT !.pc = "finally"]]
    /\ status_var' = scraping_done(TRUE, "tournament.csv")
    /\ UNCHANGED <<started, sessions, html, out>>

\* lines 232-233: finally: driver.quit()
TournamentFinally(j) ==
    /\ jobs[j].kind = "tournament" /\ jobs[j].pc = "finally"
    /\ sessions' = QuitDriver(sessions, jobs[j].driver, j)
    /\ jobs' = [jobs EXCEPT ![j].pc = IF jobs[j].raised THEN "caught" ELSE "done"]
    /\ UNCHANGED <<started, status_var, html, out>>

(***************************************************************************)
(* The except clause of the two worker functions                           *)
(***************************************************************************)
\* mutant of worker_except: no except clause, the exception leaves the thread
worker_no_except(j) ==
    /\ jobs[j].pc = "caught"
    /\ jobs' = [jobs EXCEPT ![j].pc = "crashed"]
    /\ UNCHANGED <<started, status_var, sessions, html, out>>

\* lines 390-392 and 428-430: log the error, scraping_done(False, None).
\* raised stays set: it records that this job raised an exception
worker_except(j) ==
    /\ jobs[j].pc = "caught"
    /\ jobs' = [jobs EXCEPT ![j] =
                  [Report(jobs[j], FALSE, "None") EXCEPT
                      !.error_logged = TRUE, !.pc = "done"]]
    /\ status_var' = scraping_done(FALSE, "None")
    /\ UNCHANGED <<started, sessions, html, out>>

(***************************************************************************)
(* The extraction harness: both extractors applied to one parsed page      *)
(***************************************************************************)
Extract ==
    /\ out.phase = "input"
    /\ out' = [phase |-> "output",
               ranking |-> extract_ranking_table(html),
               entries |-> extract_online_entries_table(html)]
    /\ UNCHANGED <<started, status_var, jobs, sessions, html>>

(***************************************************************************)
(* Inputs: what the user types, what the site serves                       *)
(***************************************************************************)
Seqs(S, n) == UNION {[1..k -> S] : k \in 0..n}

\* the max-players field: not a number, zero, negative, or a positive count
BadEntries == {[is_int |-> FALSE, n |-> 0], [is_int |-> TRUE, n |-> 0],
               [is_int |-> TRUE, n |-> -1]}
Entry(n) == [is_int |-> TRUE, n |-> n]

Failure(k) == [k |-> k, tables |-> <<>>]
Page(tables) == [k |-> "html", tables |-> tables]
Failures == {Failure("get_raises"), Failure("no_table"),
             Failure("source_raises"), Failure("parse_raises")}

X_Club == <<"C","l","u","b">>
X_Town == <<"T","o","w","n">>
X_DateOfEntry == <<"D","a","t","e"," ","o","f"," ","e","n","t","r","y">>
X_EntryDate == <<"E","n","t","r","y"," ","D","A","T","E">>
X_NameSp == <<" ","N","a","m","e">>
X_RankSp == <<" ","R","a","n","k"," ">>
X_Unnamed0 == <<"U","n","n","a","m","e","d",":"," ","0">>
X_Ann == <<"A","n","n">>
X_Bo == <<"B","o">>
X_BoSp == <<" ","B","o"," ">>
X_AlSp == <<" ","A","l"," ","S"," ">>
X_Blank == <<" "," ">>
X_PlayerSp == <<" ","P","l","a","y","e","r">>
X_PageOf == <<"P","a","g","e"," ","1"," ","o","f"," ","9">>
X_Results == <<"2","5"," ","R","E","S","U","L","T","S">>
X_NaNText == <<"N","a","N">>
X_NoneText == <<"N","o","n","e">>
X_Withdrawn == <<"W","i","t","h","d","r","a","w","n">>
X_LateWithdrawn == <<"L","a","t","e"," ","W","I","T","H","d","r","a","w","n","!">>
X_Confirmed == <<"C","o","n","f","i","r","m","e","d">>
X_May == <<"1"," ","M","a","y">>

\* a table that matches neither schema, and one with Name but no date column
OtherTable == DataFrame(<<X_Club, X_Town>>, <<<<Str(X_Ann), Str(X_May)>>>>)
NameOnlyTable == DataFrame(<<L_Name, X_Club>>, <<<<Str(X_Ann), Str(X_Club)>>>>)

\* ranking tables of the harness
RankCells == {Str(<<"7">>), Str(X_PageOf), Str(X_Results), NaN}
PlayerCells == {Str(X_Ann), Str(X_BoSp), Str(<<>>), Str(X_Blank), Str(L_Player),
                Str(X_PlayerSp), NaN}
RankRows == {<<r, p>> : r \in RankCells, p \in PlayerCells}
WideRankRows == {<<r, p>> : r \in {Str(<<"7">>), Str(X_Results)},
                            p \in {Str(X_Ann), Str(L_Player), NaN}}
RankingTables(max_rows) ==
    {DataFrame(<<L_Rank, L_Player>>, rows) : rows \in Seqs(RankRows, max_rows)}
    \cup {DataFrame(<<X_Unnamed0, X_RankSp, L_Player, L_SinglesLower>>,
                    [n \in 1..Len(rows) |->
                        <<NaN, rows[n][1], rows[n][2], Str(<<"9">>)>>])
            : rows \in Seqs(WideRankRows, max_rows)}

\* entries tables of the harness and of the tournament page
NameCells == {NaN, Str(<<>>), Str(X_AlSp), Str(L_Name), Str(X_NaNText),
              Str(X_NoneText), Str(X_Bo)}
StatusCells == {NaN, Str(X_LateWithdrawn), Str(X_Confirmed)}
EntriesTables(max_rows) ==
    {DataFrame(<<L_Name, X_DateOfEntry>>,
               [n \in 1..Len(names) |-> <<names[n], Str(X_May)>>])
        : names \in Seqs(NameCells, max_rows)}
    \cup {DataFrame(<<X_NameSp, X_EntryDate, L_Status>>,
                    [n \in 1..Len(rows) |-> <<rows[n][1], Str(X_May), rows[n][2]>>])
            : rows \in Seqs(NameCells \X StatusCells, max_rows)}

\* the tables mixed into multi-table pages
RankA == DataFrame(<<L_Rank, L_Player>>, <<<<Str(<<"1">>), Str(X_Ann)>>>>)
RankB == DataFrame(<<L_Rank, L_Player>>, <<<<Str(<<"2">>), Str(X_Bo)>>>>)
RankBad == DataFrame(<<L_Rank, L_Player>>, <<<<Str(X_PageOf), NaN>>>>)
EntA == DataFrame(<<L_Name, X_DateOfEntry>>, <<<<Str(X_Ann), Str(X_May)>>>>)
EntB == DataFrame(<<L_Name, X_EntryDate, L_Status>>,
                  <<<<Str(X_Bo), Str(X_May), Str(X_Confirmed)>>>>)
EntBad == DataFrame(<<L_Name, X_EntryDate, L_Status>>,
                    <<<<Str(X_Bo), Str(X_May), Str(X_Withdrawn)>>,
                      <<Str(L_Name), Str(X_May), NaN>>>>)
MixedTables == {OtherTable, NameOnlyTable, RankA, RankB, RankBad, EntA, EntB, EntBad}
MixedPages(max_tables) ==
    Seqs(MixedTables, max_tables) \cup {<<RankA, EntBad, RankB, EntA>>}

HarnessPages(max_rows, max_tables) ==
    {<<t>> : t \in RankingTables(max_rows) \cup EntriesTables(max_rows)}
    \cup MixedPages(max_tables)

\* page p of the rankings site carrying n players, followed by the pager row
\* and a repeated header row
RankRow(r) == <<Str(IntToStr(r)), Str(<<"P">> \o IntToStr(r)), NaN>>
PageDoc(p, n) ==
    <<OtherTable,
      DataFrame(<<L_Rank, L_Player, L_Rank1>>,
                [i \in 1..n |-> RankRow((p - 1) * results_per_page + i)]
                \o <<<<Str(X_PageOf), NaN, NaN>>, <<Str(L_Rank), Str(L_Player), NaN>>>>)>>

\* one job followed alone: page sizes below, at and above results_per_page
RowCounts == {0, 10, 25, 30}
JobEntries == BadEntries \cup {Entry(n) : n \in {1, 25, 26, 40, 60}}
JobRankingOutcomes(p) ==
    Failures \cup {Page(PageDoc(p, n)) : n \in RowCounts} \cup {Page(<<OtherTable>>), Page(<<>>)}
JobTournamentOutcomes(max_rows, max_tables) ==
    Failures \cup {Page(<<t>>) : t \in EntriesTables(max_rows)}
    \cup {Page(d) : d \in MixedPages(max_tables)}

\* several jobs interleaved: one-row pages
GuiEntries == {[is_int |-> FALSE, n |-> 0], Entry(26)}
GuiRankingOutcomes(p) == Failures \cup {Page(PageDoc(p, 1))}
GuiTournamentOutcomes == Failures \cup {Page(<<EntA>>), Page(<<OtherTable>>)}

(***************************************************************************)
(* Specifications                                                          *)
(***************************************************************************)
Init ==
    /\ started = 0
    /\ status_var = <<"Ready.">>
    /\ jobs = [j \in Slots |-> IdleJob]
    /\ sessions = [d \in Slots |-> NoSession]
    /\ html = <<>>
    /\ out = [phase |-> "off"]

\* the URL and folder fields as the handlers see them: empty or not
Fields == {<<TRUE, TRUE>>, <<FALSE, TRUE>>, <<TRUE, FALSE>>}

\* the user presses one of the two buttons
Press(entries) ==
    \/ \E e \in entries, f \in Fields : start_rankings(e, f[1], f[2])
    \/ \E f \in Fields : start_tournament(f[1], f[2])

\* the pages a rankings job may ask for, given what the user may enter
PlannedPages(entries) ==
    UNION {1..pages_needed(e.n, results_per_page) : e \in {x \in entries : ValidMaxPlayers(x)}}

\* worker thread j takes its next step; ranking_outcomes[p] is what may happen
\* on page p of the rankings, tournament_outcomes what may happen on the
\* tournament page
Work(j, ranking_outcomes, tournament_outcomes) ==
    \/ \E ok \in BOOLEAN : RankingsCreate(j, ok)
    \/ /\ jobs[j].pc = "loop"
       /\ \E o \in ranking_outcomes[jobs[j].page] : RankingsPage(j, o)
    \/ RankingsFinally(j)
    \/ RankingsNoData(j)
    \/ \E ok \in BOOLEAN : RankingsSave(j, ok)
    \/ RankingsReport(j)
    \/ \E ok \in BOOLEAN : TournamentCreate(j, ok)
    \/ /\ jobs[j].pc = "fetch"
       /\ \E o \in tournament_outcomes : TournamentPage(j, o)
    \/ \E ok \in BOOLEAN : TournamentSave(j, ok)
    \/ TournamentReport(j)
    \/ TournamentFinally(j)
    \/ worker_except(j)

\* the GUI with its worker threads
Next ==
    \/ Press(GuiEntries)
    \/ \E j \in Slots :
          Work(j, [p \in PlannedPages(GuiEntries) |-> GuiRankingOutcomes(p)],
               GuiTournamentOutcomes)

Spec == Init /\ [][Next]_vars

\* one job, followed from the button press to its end
NextJob ==
    \/ started = 0 /\ Press(JobEntries)
    \/ Work(1, [p \in PlannedPages(JobEntries) |-> JobRankingOutcomes(p)],
            JobTournamentOutcomes(MaxRows, MaxTables))

SpecJob == Init /\ [][NextJob]_vars

\* the extractors alone, on every generated page
InitExtract ==
    /\ started = 0
    /\ status_var = <<"Ready.">>
    /\ jobs = [j \in Slots |-> IdleJob]
    /\ sessions = [d \in Slots |-> NoSession]
    /\ html \in HarnessPages(MaxRows, MaxTables)
    /\ out = [phase |-> "input"]

SpecExtract == InitExtract /\ [][Extract]_vars

(***************************************************************************)
(* Properties of the rankings page loop (SpecJob)                          *)
(***************************************************************************)
Iota(k) == [i \in 1..k |-> i]

\* rows extracted from the pages up to page i, as recorded when each page was read
RECURSIVE GotUpTo(_, _)
GotUpTo(got, i) ==
    IF got = <<>> THEN 0
    ELSE (IF Head(got).page <= i THEN Len(Head(got).rows) ELSE 0) + GotUpTo(Tail(got), i)

\* the (Rank, Player) cells of every extracted row, in the order the pages were read
RECURSIVE GotKeys(_)
GotKeys(got) ==
    IF got = <<>> THEN <<>>
    ELSE [n \in 1..Len(Head(got).rows) |->
             <<Cell(Head(got).columns, Head(got).rows[n], L_Rank),
               Cell(Head(got).columns, Head(got).rows[n], L_Player)>>]
         \o GotKeys(Tail(got))

\* N = ceil(max_players / results_per_page), stated without the division
CeilPages(job) == CHOOSE n \in 1..job.max_players :
    n * results_per_page >= job.max_players /\ (n - 1) * results_per_page < job.max_players

\* k: the first page after which the target is reached, or N
StopPage(job) ==
    LET N == CeilPages(job)
        hits == {i \in 1..N : GotUpTo(job.got, i) >= job.max_players}
    IN  IF hits = {} THEN N ELSE CHOOSE i \in hits : \A m \in hits : i <= m

LoopLeft(job) ==
    job.kind = "rankings" /\ job.driver # NoDriver /\ job.pc \notin {"create", "loop"}

LoopLeftNormally(job) ==
    job.kind = "rankings" /\ (job.pc \in {"after", "saved"} \/ (job.pc = "finally" /\ ~job.raised))

\* C1 as stated: once the page loop of a rankings job has ended, the pages
\* fetched are exactly 1..k, k the first page after which the accumulated row
\* count reached max_players, or N = ceil(max_players / results_per_page).
C1_PagesExactlyUpToStop ==
    \A j \in Slots : LoopLeft(jobs[j]) => jobs[j].fetched = Iota(StopPage(jobs[j]))

\* C1 amended: the pages fetched are always 1, 2, ..., m in increasing order,
\* each once, never beyond N and never after the accumulated row count reached
\* max_players; m = k whenever the loop ends without an exception, and a page
\* without table or rows neither stops the loop nor is fetched again.
C1_PagesInOrderUpToStop ==
    \A j \in Slots : jobs[j].kind = "rankings" =>
        /\ jobs[j].fetched = Iota(Len(jobs[j].fetched))
        /\ Len(jobs[j].fetched) <= StopPage(jobs[j])
        /\ jobs[j].pc = "loop" =>
              /\ jobs[j].page = Len(jobs[j].fetched) + 1
              /\ GotUpTo(jobs[j].got, jobs[j].page) < jobs[j].max_players
        /\ LoopLeftNormally(jobs[j]) => Len(jobs[j].fetched) = StopPage(jobs[j])

\* C1 witness: three pages were planned, page 1 had no table and was skipped,
\* pages 2 and 3 were still fetched, and the loop ended normally
C1_Witness ==
    \E j \in Slots :
        /\ LoopLeftNormally(jobs[j])
        /\ jobs[j].pages_needed = 3
        /\ jobs[j].fetched = <<1, 2, 3>>
        /\ Len(jobs[j].got) = 2 /\ jobs[j].got[1].page = 2

\* C2: the ResultSet a rankings job writes holds the accumulated rows in page
\* order cut to max_players: min(accumulated, max_players) rows, the first ones,
\* so never more than max_players and nothing removed unless accumulated >
\* max_players; and a ResultSet is written only if some row was accumulated.
C2_WrittenIsHeadOfAccumulated ==
    \A j \in Slots : (jobs[j].kind = "rankings" /\ jobs[j].written # <<>>) =>
        LET acc == GotKeys(jobs[j].got)
            W == jobs[j].written[1]
            m == jobs[j].max_players
        IN  /\ Len(jobs[j].written) = 1
            /\ Len(acc) >= 1
            /\ Len(W.rows) = IF Len(acc) < m THEN Len(acc) ELSE m
            /\ \A n \in 1..Len(W.rows) :
                  <<Cell(W.columns, W.rows[n], L_Rank),
                    Cell(W.columns, W.rows[n], L_Player)>> = acc[n]

\* C2 witness: target 40, two pages of 25 rows, rows 1-40 written
C2_Witness ==
    \E j \in Slots :
        /\ jobs[j].kind = "rankings" /\ jobs[j].written # <<>>
        /\ jobs[j].max_players = 40
        /\ Len(GotKeys(jobs[j].got)) = 50
        /\ Len(jobs[j].written[1].rows) = 40
        /\ jobs[j].written[1].rows[40][1] = Str(<<"4", "0">>)

\* C3: a rankings job whose page loop ended with no row from any page never
\* writes anything and never reports success, and when it has ended it has
\* reported done_fn(False, None).
C3_NoRowsMeansFailure ==
    \A j \in Slots :
        (LoopLeft(jobs[j]) /\ GotKeys(jobs[j].got) = <<>>) =>
            /\ jobs[j].written = <<>>
            /\ \A n \in 1..Len(jobs[j].done_calls) : ~jobs[j].done_calls[n].success
            /\ jobs[j].pc = "done" =>
                  jobs[j].done_calls = <<[success |-> FALSE, filename |-> "None"]>>

\* C3 witness: all three planned pages were fetched, none gave a row, no
\* exception was raised, and the job ended reporting failure
C3_Witness ==
    \E j \in Slots :
        /\ jobs[j].kind = "rankings" /\ jobs[j].pc = "done" /\ ~jobs[j].raised
        /\ jobs[j].fetched = <<1, 2, 3>>
        /\ GotKeys(jobs[j].got) = <<>>
        /\ jobs[j].done_calls = <<[success |-> FALSE, filename |-> "None"]>>

(***************************************************************************)
(* Properties of the browser session and of the worker boundary            *)
(***************************************************************************)
\* where a job holds its browser session open
HoldsSession(job) ==
    \/ job.kind = "rankings" /\ job.pc \in {"loop", "finally"}
    \/ job.kind = "tournament" /\ job.pc \in {"fetch", "t_save", "t_saved", "finally"}

\* C4: a job that acquired a session is its only user, uses it only while it is
\* open, and has called driver.quit() on it exactly once as soon as it left the
\* try/finally block, whether by success, early return or exception.
C4_SessionReleasedExactlyOnce ==
    /\ \A j \in Slots : jobs[j].driver # NoDriver =>
          LET s == sessions[jobs[j].driver]
          IN  /\ s.owner = j
              /\ ~s.misused
              /\ HoldsSession(jobs[j]) => (s.open /\ s.quits = 0)
              /\ ~HoldsSession(jobs[j]) => (~s.open /\ s.quits = 1)
    /\ \A d \in Slots : sessions[d].owner # 0 => jobs[sessions[d].owner].driver = d

\* C4 witness: one job ended on an exception with its session closed once,
\* while another job holds its own session open
C4_Witness ==
    \E j, k \in Slots :
        /\ j # k
        /\ jobs[j].pc = "done" /\ jobs[j].raised /\ jobs[j].driver # NoDriver
        /\ sessions[jobs[j].driver].quits = 1
        /\ HoldsSession(jobs[k]) /\ sessions[jobs[k].driver].open

\* C5 as stated: in every reachable state at most one extraction worker is
\* running, whatever buttons the user presses.
C5_AtMostOneWorkerRunning ==
    Cardinality({j \in Slots : Running(j)}) <= 1

\* C6: an exception raised in a job never leaves the worker thread: the job
\* goes through its finally block to the except clause of the worker, where the
\* error is logged and the job reported as failed with scraping_done(False, None).
C6_ExceptionsCaughtAtWorker ==
    \A j \in Slots :
        /\ jobs[j].pc # "crashed"
        /\ jobs[j].raised => jobs[j].pc \in {"finally", "caught", "done"}
        /\ jobs[j].error_logged => jobs[j].raised
        /\ (jobs[j].raised /\ jobs[j].pc = "done") =>
              /\ jobs[j].error_logged
              /\ jobs[j].done_calls = <<[success |-> FALSE, filename |-> "None"]>>
              /\ jobs[j].written = <<>>

\* C6 witness: the first job ended on an exception and was reported as failed;
\* after that the user started a tournament job, which is about to run
C6_Witness ==
    /\ jobs[1].pc = "done" /\ jobs[1].raised /\ jobs[1].error_logged
    /\ jobs[2].kind = "tournament" /\ jobs[2].pc = "create"
    /\ status_var = <<"Downloading tournament players">>

\* C10: a job calls the completion callback at most once, exactly once by the
\* time it has ended, and with success=True only when its ResultSet has been
\* written before.
C10_DoneExactlyOnceAfterWrite ==
    \A j \in Slots :
        /\ Len(jobs[j].done_calls) <= 1
        /\ jobs[j].pc = "done" => Len(jobs[j].done_calls) = 1
        /\ \A n \in 1..Len(jobs[j].done_calls) :
              jobs[j].done_calls[n].success => Len(jobs[j].written) = 1
        /\ jobs[j].pc \in {"saved", "t_saved"} =>
              (jobs[j].done_calls = <<>> /\ Len(jobs[j].written) = 1)

\* C10 witness: a tournament job has ended after writing its names and
\* reporting success once
C10_Witness ==
    \E j \in Slots :
        /\ jobs[j].kind = "tournament" /\ jobs[j].pc = "done"
        /\ jobs[j].written # <<>>
        /\ jobs[j].done_calls = <<[success |-> TRUE, filename |-> "tournament.csv"]>>

(***************************************************************************)
(* Properties of the extractors                                            *)
(***************************************************************************)
\* the schema predicates, read off the stripped header set
HeaderSet(t) == {strip(t.columns[k]) : k \in 1..Len(t.columns)}
RankingSchema(t) == L_Rank \in HeaderSet(t) /\ L_Player \in HeaderSet(t)
EntriesSchema(t) ==
    L_Name \in HeaderSet(t) /\ \E h \in HeaderSet(t) : contains(lower(h), T_date)

\* a cell with its text trimmed
Trimmed(c) == IF c.isna THEN NaN ELSE Str(strip(c.v))

\* every record of df carries, under label, a value found under label in table t
ComesFrom(df, t, label) ==
    /\ Len(df.rows) <= Len(t.rows)
    /\ \A n \in 1..Len(df.rows) : \E m \in 1..Len(t.rows) :
          Trimmed(Cell(df.columns, df.rows[n], label))
              = Trimmed(Cell(StripColumns(t), t.rows[m], label))

\* an entries row that passes both filters: Name present and no placeholder,
\* Status (if the table has one) not containing "withdrawn" in any case
PassesEntryFilters(t, row) ==
    LET cols == StripColumns(t)
        name == Cell(cols, row, L_Name)
    IN  /\ ~name.isna
        /\ lower(strip(name.v)) \notin {<<>>, T_name, T_nan, T_none}
        /\ L_Status \in HeaderSet(t) =>
              \/ Cell(cols, row, L_Status).isna
              \/ ~contains(lower(Cell(cols, row, L_Status).v), T_withdrawn)

\* an entries table with at least one row passing both filters
UsableEntries(t) ==
    EntriesSchema(t) /\ \E m \in 1..Len(t.rows) : PassesEntryFilters(t, t.rows[m])

\* the first table of a page for which Test holds, 0 if there is none
FirstTable(tables, Test(_)) ==
    IF \E i \in 1..Len(tables) : Test(tables[i])
    THEN CHOOSE i \in 1..Len(tables) :
            Test(tables[i]) /\ \A m \in 1..(i - 1) : ~Test(tables[m])
    ELSE 0

\* what an extractor returned is None if no table passes Test, and otherwise
\* records taken from the first table that passes it
SelectsFirst(result, tables, Test(_), label) ==
    LET i == FirstTable(tables, Test)
    IN  IF i = 0 THEN result = None
        ELSE result # None /\ ComesFrom(result[1], tables[i], label)

\* C7 as stated: both extractors return records of the first table that
\* satisfies their schema predicate, and None if no table satisfies it.
C7_FirstSchemaMatchSelected ==
    out.phase = "output" =>
        /\ SelectsFirst(out.ranking, html, RankingSchema, L_Player)
        /\ SelectsFirst(out.entries, html, EntriesSchema, L_Name)

\* C7 amended: extract_ranking_table returns the records of the first table
\* with the ranking schema; extract_online_entries_table returns the records of
\* the first table with the entries schema that keeps at least one row after
\* its filters, passing over matching tables left empty; None if there is no
\* such table.
C7_FirstUsableMatchSelected ==
    out.phase = "output" =>
        /\ SelectsFirst(out.ranking, html, RankingSchema, L_Player)
        /\ SelectsFirst(out.entries, html, UsableEntries, L_Name)

\* C7 witness: two ranking tables on one page and the first one returned; two
\* entries tables, the first left empty by the filters, the second returned
C7_Witness ==
    /\ out.phase = "output"
    /\ html = <<RankA, EntBad, RankB, EntA>>
    /\ out.ranking # None /\ out.ranking[1].rows = <<<<Str(<<"1">>), Str(X_Ann)>>>>
    /\ out.entries # None /\ out.entries[1].rows = <<<<Str(X_Ann)>>>>

\* C8: the entries ResultSet a tournament job writes has the single column
\* Name and holds, in table order, the trimmed Name of exactly the rows of the
\* selected table that pass both filters.
C8_WrittenEntriesAreFiltered ==
    \A j \in Slots : (jobs[j].kind = "tournament" /\ jobs[j].written # <<>>) =>
        LET W == jobs[j].written[1]
            i == FirstTable(jobs[j].page_html, UsableEntries)
            t == jobs[j].page_html[i]
            passes(r) == PassesEntryFilters(t, r)
            kept == SelectSeq(t.rows, passes)
        IN  /\ i # 0
            /\ W.columns = <<L_Name>>
            /\ W.rows = [n \in 1..Len(kept) |->
                            <<Str(strip(Cell(StripColumns(t), kept[n], L_Name).v))>>]

\* C8 witness: a table with a Status column whose first row has a valid Name
\* but is withdrawn; only the second row is written, trimmed
C8_Witness ==
    \E j \in Slots :
        /\ jobs[j].kind = "tournament" /\ jobs[j].written # <<>>
        /\ Len(jobs[j].page_html) = 1
        /\ jobs[j].page_html[1].rows =
              <<<<Str(X_Bo), Str(X_May), Str(X_LateWithdrawn)>>,
                <<Str(X_AlSp), Str(X_May), Str(X_Confirmed)>>>>
        /\ jobs[j].written[1].rows = <<<<Str(strip(X_AlSp))>>>>

\* a pagination artifact: the Rank cell contains "page" or "results"
IsArtifactRow(t, row) ==
    LET rank == Cell(StripColumns(t), row, L_Rank)
    IN  ~rank.isna /\ (contains(lower(rank.v), T_page) \/ contains(lower(rank.v), T_results))

\* the Player cell is empty (missing, or nothing but blanks) or the header text
PlayerEmptyOrHeader(t, row) ==
    LET player == Cell(StripColumns(t), row, L_Player)
    IN  player.isna \/ strip(player.v) = <<>> \/ strip(player.v) = L_Player

\* C9 as stated: of the selected ranking table exactly the artifact rows and
\* the rows with an empty or header Player cell are removed, the others kept
\* in their order.
C9_ExactlyNoiseRowsRemoved ==
    (out.phase = "output" /\ out.ranking # None) =>
        LET t == html[FirstTable(html, RankingSchema)]
            keep(r) == ~IsArtifactRow(t, r) /\ ~PlayerEmptyOrHeader(t, r)
            kept == SelectSeq(t.rows, keep)
            df == out.ranking[1]
        IN  [n \in 1..Len(df.rows) |->
                <<Cell(df.columns, df.rows[n], L_Rank),
                  Cell(df.columns, df.rows[n], L_Player)>>]
            = [n \in 1..Len(kept) |->
                <<Cell(StripColumns(t), kept[n], L_Rank),
                  Cell(StripColumns(t), kept[n], L_Player)>>]

====
